---- MODULE Spec2Model ----
(***************************************************************************)
(* DebtBook_Z: the encrypted debt ledger contract.  Each external function *)
(* of the contract is one atomic transaction (one action); a reverting     *)
(* call leaves the contract storage as it was and logs nothing.            *)
(***************************************************************************)
EXTENDS Integers, Sequences, FiniteSets, TLC

\* ---------------------------------------------------------------- bounds
MaxLog == 2          \* successful recordDebt calls explored
\* modulus of the unsigned amount type.  The contract's euint32/uint32 wrap at
\* 2^32; the model keeps the wrap-around and scales the width down so that
\* every value stays inside the checker's integers.
Uint32Mod == 16

\* ------------------------------------------------------- input universes
EntryIdSet == {"e1", "e2"}
Names == {"", "bob", "Bob"}
\* participants whose balance is aggregated and read
BalanceNames == {"", "bob"}
\* cleartext hidden behind each client-side ciphertext 1..Len(CtValue): an
\* amount in the upper half of the range, so that two credits wrap around
CtValue == <<Uint32Mod - 7>>
NumCts == Len(CtValue)
ExternalCts == 0..NumCts        \* 0 is the all-zero (uninitialised) handle
InputProofs == 0..NumCts        \* 0: empty proof; k: attestation of ciphertext k

\* 32-byte words a caller may pass as abiEncodedClearAmount
ClearWords == {0, CtValue[1], Uint32Mod + CtValue[1]}

\* ------------------------------------------------------------- handles
\* A ciphertext handle is the sequence of signed atoms it was computed from:
\* <<k>> the ingested ciphertext k, <<0>> the encrypted zero, and the handle
\* of add/sub is determined by its operands.  << >> is the null handle.
NullHandle == << >>

FHEzero == <<0>>

FHEadd(a, b) == a \o b

FHEsub(a, b) == a \o [i \in 1..Len(b) |-> -b[i]]

FHEisInitialized(h) == h # NullHandle

AtomValue(k) == IF k = 0 THEN 0
                ELSE IF k > 0 THEN CtValue[k]
                ELSE (Uint32Mod - CtValue[-k]) % Uint32Mod

RECURSIVE CleartextUnbounded(_)
\* fault variant: the sum does not wrap
CleartextUnbounded(h) ==
    IF h = << >> THEN 0
    ELSE CleartextUnbounded(SubSeq(h, 1, Len(h) - 1)) + AtomValue(h[Len(h)])

RECURSIVE Cleartext(_)
\* the euint32 value behind a handle (wrapping 32-bit arithmetic)
Cleartext(h) == IF h = << >> THEN 0
                ELSE (Cleartext(SubSeq(h, 1, Len(h) - 1)) + AtomValue(h[Len(h)])) % Uint32Mod

\* FHE.fromExternal: reverts unless the proof attests the supplied handle
FromExternalOk(ext, proof) == (proof = 0 /\ ext = 0) \/ (proof # 0 /\ proof = ext)

FromExternal(ext) == IF ext = 0 THEN NullHandle ELSE <<ext>>

\* FHE.checkSignatures: the KMS signs only (handle, cleartext) pairs that are
\* genuine decryptions; a proof names what was signed and whether the
\* signatures are the KMS's.
Proofs == {pr \in [ct : {<<k>> : k \in 0..NumCts}, clear : {0, CtValue[1]}, kms : BOOLEAN] :
             pr.kms => pr.clear = Cleartext(pr.ct)}

CheckSignatures(cts, clearWord, proof) ==
    proof.kms /\ proof.ct = cts /\ proof.clear = clearWord

\* abi.decode(bytes, (uint32)) reverts on a word that does not fit 32 bits
AbiDecodeOk(word) == word < Uint32Mod

AbiDecodeUint32(word) == word % Uint32Mod

\* --------------------------------------------------------------- state
VARIABLES debtEntries, netBalances, entryIds, participantIds,
          aclAllowed, publiclyDecryptable, now, lastCall, returned, emitted,
          \* the web client (App.tsx): one decryptData call and what it leaves
          clientPc, isDecrypting, transactionStatus, businessData,
          verifyTxSubmitted, clearValue, caught, decryptDataResult

storage == <<debtEntries, netBalances, entryIds, participantIds,
             aclAllowed, publiclyDecryptable>>
clientVars == <<clientPc, isDecrypting, transactionStatus, businessData,
                verifyTxSubmitted, clearValue, caught, decryptDataResult>>
contractVars == <<storage, now, lastCall, returned, emitted>>
vars == <<debtEntries, netBalances, entryIds, participantIds,
          aclAllowed, publiclyDecryptable, now, lastCall, returned, emitted,
          clientVars>>

\* the value a mapping(string => DebtEntry) holds for a key never written
EmptyEntry == [creditor |-> "", debtor |-> "", encryptedAmount |-> NullHandle,
               timestamp |-> 0, decryptedAmount |-> 0, isVerified |-> FALSE]

NoEvents == << >>
NoReturn == << >>

\* the outcome of a transaction: the function called and how it ended
Call(op, err) == [op |-> op, err |-> err]

DebtRecorded(entryId, creditor, debtor) ==
    [name |-> "DebtRecorded", id |-> entryId, creditor |-> creditor,
     debtor |-> debtor, amount |-> 0, handle |-> NullHandle]

\* fault variant: the notification does not carry the verified amount
DecryptionVerifiedNoAmount(entryId, amount) ==
    [name |-> "DecryptionVerified", id |-> entryId, creditor |-> "",
     debtor |-> "", amount |-> 0, handle |-> NullHandle]

DecryptionVerified(entryId, amount) ==
    [name |-> "DecryptionVerified", id |-> entryId, creditor |-> "",
     debtor |-> "", amount |-> amount, handle |-> NullHandle]

NetBalanceUpdated(participantId, balance) ==
    [name |-> "NetBalanceUpdated", id |-> participantId, creditor |-> "",
     debtor |-> "", amount |-> 0, handle |-> balance]

\* useState defaults of the client and the locals of a decryptData call
\* that has not read anything yet
HiddenStatus == [visible |-> FALSE, status |-> "pending", message |-> ""]
NoBusinessData == [read |-> FALSE, isVerified |-> FALSE, decryptedValue |-> 0]
NoResult == [kind |-> "none", value |-> 0]

Init ==
    /\ debtEntries = [e \in EntryIdSet |-> EmptyEntry]
    /\ netBalances = [p \in Names |-> NullHandle]
    /\ entryIds = << >>
    /\ participantIds = << >>
    /\ aclAllowed = {}
    /\ publiclyDecryptable = {}
    /\ now = 0
    /\ lastCall = Call("constructor", "none")
    /\ returned = NoReturn
    /\ emitted = NoEvents
    /\ clientPc = "idle"
    /\ isDecrypting = FALSE
    /\ transactionStatus = HiddenStatus
    /\ businessData = NoBusinessData
    /\ verifyTxSubmitted = 0
    /\ clearValue = 0
    /\ caught = ""
    /\ decryptDataResult = NoResult

\* ------------------------------------------------------------- helpers
\* fault variant: comparison that folds letter case
CompareStringsIgnoreCase(a, b) ==
    LET lower(x) == IF x = "Bob" THEN "bob" ELSE x IN lower(a) = lower(b)

CompareStrings(a, b) == a = b

BytesLength(s) == IF s = "" THEN 0 ELSE 1

ParticipantExists(list, participantId) ==
    \E i \in 1..Len(list) : CompareStrings(list[i], participantId)

\* fault variant: the participant is pushed without the existence test
UpdateParticipantListNoCheck(list, participantId) == Append(list, participantId)

UpdateParticipantList(list, participantId) ==
    IF ~ParticipantExists(list, participantId) THEN Append(list, participantId) ELSE list

\* block.timestamp of the block a recordDebt is mined in (no other function
\* reads it): every recorded entry is explored in a block of its own, later
\* than the block of the entry recorded before it
BlockTimestamps == {now + 1}

Revert(call) ==
    /\ lastCall' = call
    /\ returned' = NoReturn
    /\ emitted' = NoEvents
    /\ UNCHANGED <<storage, now, clientVars>>

\* ---------------------------------------------------------- recordDebt
\* fault variant: the entry-id check is missing
RecordDebtErrorNoIdCheck(entryId, creditor, debtor, encryptedAmount, inputProof) ==
    IF CompareStrings(creditor, debtor) THEN "SelfDebt"
    ELSE IF ~FromExternalOk(encryptedAmount, inputProof) THEN "InvalidCiphertext"
    ELSE IF ~FHEisInitialized(FromExternal(encryptedAmount)) THEN "InvalidCiphertext"
    ELSE "none"

\* fault variant: creditor and debtor are not compared
RecordDebtErrorNoSelfCheck(entryId, creditor, debtor, encryptedAmount, inputProof) ==
    IF BytesLength(debtEntries[entryId].creditor) # 0 THEN "DuplicateEntry"
    ELSE IF ~FromExternalOk(encryptedAmount, inputProof) THEN "InvalidCiphertext"
    ELSE IF ~FHEisInitialized(FromExternal(encryptedAmount)) THEN "InvalidCiphertext"
    ELSE "none"

RecordDebtError(entryId, creditor, debtor, encryptedAmount, inputProof) ==
    IF BytesLength(debtEntries[entryId].creditor) # 0 THEN "DuplicateEntry"
    ELSE IF CompareStrings(creditor, debtor) THEN "SelfDebt"
    ELSE IF ~FromExternalOk(encryptedAmount, inputProof) THEN "InvalidCiphertext"
    ELSE IF ~FHEisInitialized(FromExternal(encryptedAmount)) THEN "InvalidCiphertext"
    ELSE "none"

\* fault variant: recording also adds the amount to the creditor's balance
RecordDebtUpdatesBalance(entryId, creditor, debtor, encryptedAmount, inputProof) ==
    LET err == RecordDebtError(entryId, creditor, debtor, encryptedAmount, inputProof)
        amount == FromExternal(encryptedAmount)
        call == Call("recordDebt", err)
    IN  IF err # "none" THEN Revert(call)
        ELSE /\ Len(entryIds) < MaxLog
             /\ \E blockTimestamp \in BlockTimestamps :
                    /\ now' = blockTimestamp
                    /\ debtEntries' = [debtEntries EXCEPT ![entryId] =
                          [creditor |-> creditor, debtor |-> debtor,
                           encryptedAmount |-> amount, timestamp |-> blockTimestamp,
                           decryptedAmount |-> 0, isVerified |-> FALSE]]
             /\ aclAllowed' = aclAllowed \cup {amount}
             /\ publiclyDecryptable' = publiclyDecryptable \cup {amount}
             /\ participantIds' = UpdateParticipantList(
                    UpdateParticipantList(participantIds, creditor), debtor)
             /\ entryIds' = Append(entryIds, entryId)
             /\ emitted' = <<DebtRecorded(entryId, creditor, debtor)>>
             /\ lastCall' = call
             /\ returned' = NoReturn
             /\ UNCHANGED clientVars
             /\ netBalances' = [netBalances EXCEPT ![creditor] = FHEadd(@, amount)]

RecordDebt(entryId, creditor, debtor, encryptedAmount, inputProof) ==
    LET err == RecordDebtError(entryId, creditor, debtor, encryptedAmount, inputProof)
        amount == FromExternal(encryptedAmount)
        call == Call("recordDebt", err)
    IN  IF err # "none" THEN Revert(call)
        ELSE /\ Len(entryIds) < MaxLog
             /\ \E blockTimestamp \in BlockTimestamps :
                    /\ now' = blockTimestamp
                    /\ debtEntries' = [debtEntries EXCEPT ![entryId] =
                          [creditor |-> creditor, debtor |-> debtor,
                           encryptedAmount |-> amount, timestamp |-> blockTimestamp,
                           decryptedAmount |-> 0, isVerified |-> FALSE]]
             /\ aclAllowed' = aclAllowed \cup {amount}
             /\ publiclyDecryptable' = publiclyDecryptable \cup {amount}
             /\ participantIds' = UpdateParticipantList(
                    UpdateParticipantList(participantIds, creditor), debtor)
             /\ entryIds' = Append(entryIds, entryId)
             /\ emitted' = <<DebtRecorded(entryId, creditor, debtor)>>
             /\ lastCall' = call
             /\ returned' = NoReturn
             /\ UNCHANGED clientVars
             /\ UNCHANGED netBalances

\* ---------------------------------------------------- verifyDecryption
\* fault variant: the isVerified check is missing
VerifyDecryptionErrorNoVerifiedCheck(entryId, abiEncodedClearAmount, decryptionProof) ==
    IF ~(BytesLength(debtEntries[entryId].creditor) > 0) THEN "NotFound"
    ELSE IF ~CheckSignatures(debtEntries[entryId].encryptedAmount,
                             abiEncodedClearAmount, decryptionProof) THEN "InvalidProof"
    ELSE IF ~AbiDecodeOk(abiEncodedClearAmount) THEN "DecodeRevert"
    ELSE "none"

\* fault variant: the cleartext is trusted without checking the signatures
VerifyDecryptionErrorNoProofCheck(entryId, abiEncodedClearAmount, decryptionProof) ==
    IF ~(BytesLength(debtEntries[entryId].creditor) > 0) THEN "NotFound"
    ELSE IF debtEntries[entryId].isVerified THEN "AlreadyVerified"
    ELSE IF ~AbiDecodeOk(abiEncodedClearAmount) THEN "DecodeRevert"
    ELSE "none"

VerifyDecryptionError(entryId, abiEncodedClearAmount, decryptionProof) ==
    IF ~(BytesLength(debtEntries[entryId].creditor) > 0) THEN "NotFound"
    ELSE IF debtEntries[entryId].isVerified THEN "AlreadyVerified"
    ELSE IF ~CheckSignatures(debtEntries[entryId].encryptedAmount,
                             abiEncodedClearAmount, decryptionProof) THEN "InvalidProof"
    ELSE IF ~AbiDecodeOk(abiEncodedClearAmount) THEN "DecodeRevert"
    ELSE "none"

\* fault variant: verifying also resets the creation timestamp
VerifyDecryptionResetsTimestamp(entryId, abiEncodedClearAmount, decryptionProof) ==
    LET err == VerifyDecryptionError(entryId, abiEncodedClearAmount, decryptionProof)
        decodedAmount == AbiDecodeUint32(abiEncodedClearAmount)
        call == Call("verifyDecryption", err)
    IN  IF err # "none" THEN Revert(call)
        ELSE /\ debtEntries' = [debtEntries EXCEPT ![entryId].decryptedAmount = decodedAmount,
                                                   ![entryId].isVerified = TRUE,
                                                   ![entryId].timestamp = 0]
             /\ emitted' = <<DecryptionVerified(entryId, decodedAmount)>>
             /\ lastCall' = call
             /\ returned' = NoReturn
             /\ UNCHANGED clientVars
             /\ UNCHANGED <<netBalances, entryIds, participantIds, aclAllowed,
                            publiclyDecryptable, now>>

\* fault variant: the amount is written but the entry is not marked verified
VerifyDecryptionKeepsFlag(entryId, abiEncodedClearAmount, decryptionProof) ==
    LET err == VerifyDecryptionError(entryId, abiEncodedClearAmount, decryptionProof)
        decodedAmount == AbiDecodeUint32(abiEncodedClearAmount)
        call == Call("verifyDecryption", err)
    IN  IF err # "none" THEN Revert(call)
        ELSE /\ debtEntries' = [debtEntries EXCEPT ![entryId].decryptedAmount = decodedAmount]
             /\ emitted' = <<DecryptionVerified(entryId, decodedAmount)>>
             /\ lastCall' = call
             /\ returned' = NoReturn
             /\ UNCHANGED clientVars
             /\ UNCHANGED <<netBalances, entryIds, participantIds, aclAllowed,
                            publiclyDecryptable, now>>

VerifyDecryption(entryId, abiEncodedClearAmount, decryptionProof) ==
    LET err == VerifyDecryptionError(entryId, abiEncodedClearAmount, decryptionProof)
        decodedAmount == AbiDecodeUint32(abiEncodedClearAmount)
        call == Call("verifyDecryption", err)
    IN  IF err # "none" THEN Revert(call)
        ELSE /\ debtEntries' = [debtEntries EXCEPT ![entryId].decryptedAmount = decodedAmount,
                                                   ![entryId].isVerified = TRUE]
             /\ emitted' = <<DecryptionVerified(entryId, decodedAmount)>>
             /\ lastCall' = call
             /\ returned' = NoReturn
             /\ UNCHANGED clientVars
             /\ UNCHANGED <<netBalances, entryIds, participantIds, aclAllowed,
                            publiclyDecryptable, now>>

\* --------------------------------------------------- computeNetBalance
RECURSIVE ScanEntriesNoNegate(_, _, _, _)
\* fault variant: a first contribution that is a debit is taken as it is
ScanEntriesNoNegate(i, balance, firstEntry, participantId) ==
    IF i > Len(entryIds) THEN balance
    ELSE LET entry == debtEntries[entryIds[i]]
             isCred == CompareStrings(entry.creditor, participantId)
             b1 == IF isCred
                   THEN (IF firstEntry THEN entry.encryptedAmount
                         ELSE FHEadd(balance, entry.encryptedAmount))
                   ELSE balance
             f1 == IF isCred THEN FALSE ELSE firstEntry
             isDebt == CompareStrings(entry.debtor, participantId)
             b2 == IF isDebt
                   THEN (IF f1 THEN entry.encryptedAmount
                         ELSE FHEsub(b1, entry.encryptedAmount))
                   ELSE b1
             f2 == IF isDebt THEN FALSE ELSE f1
         IN  ScanEntriesNoNegate(i + 1, b2, f2, participantId)

RECURSIVE ScanEntriesNoShortcut(_, _, _, _)
\* fault variant: every contribution is added to or subtracted from the
\* accumulator, the first one too
ScanEntriesNoShortcut(i, balance, firstEntry, participantId) ==
    IF i > Len(entryIds) THEN balance
    ELSE LET entry == debtEntries[entryIds[i]]
             b1 == IF CompareStrings(entry.creditor, participantId)
                   THEN FHEadd(balance, entry.encryptedAmount) ELSE balance
             b2 == IF CompareStrings(entry.debtor, participantId)
                   THEN FHEsub(b1, entry.encryptedAmount) ELSE b1
         IN  ScanEntriesNoShortcut(i + 1, b2, firstEntry, participantId)

RECURSIVE ScanEntries(_, _, _, _)
\* the loop of computeNetBalance from index i on: both tests run for each entry
ScanEntries(i, balance, firstEntry, participantId) ==
    IF i > Len(entryIds) THEN balance
    ELSE LET entry == debtEntries[entryIds[i]]
             isCred == CompareStrings(entry.creditor, participantId)
             b1 == IF isCred
                   THEN (IF firstEntry THEN entry.encryptedAmount
                         ELSE FHEadd(balance, entry.encryptedAmount))
                   ELSE balance
             f1 == IF isCred THEN FALSE ELSE firstEntry
             isDebt == CompareStrings(entry.debtor, participantId)
             b2 == IF isDebt
                   THEN (IF f1 THEN FHEsub(FHEzero, entry.encryptedAmount)
                         ELSE FHEsub(b1, entry.encryptedAmount))
                   ELSE b1
             f2 == IF isDebt THEN FALSE ELSE f1
         IN  ScanEntries(i + 1, b2, f2, participantId)

ComputeNetBalanceError(participantId) ==
    IF ~ParticipantExists(participantIds, participantId) THEN "NotFound" ELSE "none"

\* fault variant: the balance is written before the existence check fails
ComputeNetBalanceLateCheck(participantId) ==
    LET err == ComputeNetBalanceError(participantId)
        balance == ScanEntries(1, FHEzero, TRUE, participantId)
    IN  /\ netBalances' = [netBalances EXCEPT ![participantId] = balance]
        /\ aclAllowed' = aclAllowed \cup {balance}
        /\ publiclyDecryptable' = publiclyDecryptable \cup {balance}
        /\ emitted' = IF err = "none" THEN <<NetBalanceUpdated(participantId, balance)>>
                      ELSE NoEvents
        /\ lastCall' = Call("computeNetBalance", err)
        /\ returned' = NoReturn
        /\ UNCHANGED clientVars
        /\ UNCHANGED <<debtEntries, entryIds, participantIds, now>>

\* fault variant: the accumulator starts from the balance stored before
ComputeNetBalanceIncremental(participantId) ==
    LET err == ComputeNetBalanceError(participantId)
        balance == IF netBalances[participantId] = NullHandle
                   THEN ScanEntries(1, FHEzero, TRUE, participantId)
                   ELSE ScanEntries(1, netBalances[participantId], FALSE, participantId)
    IN  IF err # "none" THEN Revert(Call("computeNetBalance", err))
        ELSE /\ netBalances' = [netBalances EXCEPT ![participantId] = balance]
             /\ aclAllowed' = aclAllowed \cup {balance}
             /\ publiclyDecryptable' = publiclyDecryptable \cup {balance}
             /\ emitted' = <<NetBalanceUpdated(participantId, balance)>>
             /\ lastCall' = Call("computeNetBalance", "none")
             /\ returned' = NoReturn
             /\ UNCHANGED clientVars
             /\ UNCHANGED <<debtEntries, entryIds, participantIds, now>>

\* fault variant: the balance is stored without the public-decryption grant
ComputeNetBalanceNoGrant(participantId) ==
    LET err == ComputeNetBalanceError(participantId)
        balance == ScanEntries(1, FHEzero, TRUE, participantId)
    IN  IF err # "none" THEN Revert(Call("computeNetBalance", err))
        ELSE /\ netBalances' = [netBalances EXCEPT ![participantId] = balance]
             /\ aclAllowed' = aclAllowed \cup {balance}
             /\ emitted' = <<NetBalanceUpdated(participantId, balance)>>
             /\ lastCall' = Call("computeNetBalance", "none")
             /\ returned' = NoReturn
             /\ UNCHANGED clientVars
             /\ UNCHANGED <<debtEntries, entryIds, participantIds, now,
                            publiclyDecryptable>>

\* fault variant: the balance is stored under every participant id
ComputeNetBalanceForAll(participantId) ==
    LET err == ComputeNetBalanceError(participantId)
        balance == ScanEntries(1, FHEzero, TRUE, participantId)
    IN  IF err # "none" THEN Revert(Call("computeNetBalance", err))
        ELSE /\ netBalances' = [p \in Names |-> balance]
             /\ aclAllowed' = aclAllowed \cup {balance}
             /\ publiclyDecryptable' = publiclyDecryptable \cup {balance}
             /\ emitted' = <<NetBalanceUpdated(participantId, balance)>>
             /\ lastCall' = Call("computeNetBalance", "none")
             /\ returned' = NoReturn
             /\ UNCHANGED clientVars
             /\ UNCHANGED <<debtEntries, entryIds, participantIds, now>>

ComputeNetBalance(participantId) ==
    LET err == ComputeNetBalanceError(participantId)
        balance == ScanEntries(1, FHEzero, TRUE, participantId)
    IN  IF err # "none" THEN Revert(Call("computeNetBalance", err))
        ELSE /\ netBalances' = [netBalances EXCEPT ![participantId] = balance]
             /\ aclAllowed' = aclAllowed \cup {balance}
             /\ publiclyDecryptable' = publiclyDecryptable \cup {balance}
             /\ emitted' = <<NetBalanceUpdated(participantId, balance)>>
             /\ lastCall' = Call("computeNetBalance", "none")
             /\ returned' = NoReturn
             /\ UNCHANGED clientVars
             /\ UNCHANGED <<debtEntries, entryIds, participantIds, now>>

\* -------------------------------------------------------------- views
View(call, value) ==
    /\ lastCall' = call
    /\ returned' = value
    /\ emitted' = NoEvents
    /\ UNCHANGED <<storage, now, clientVars>>

GetDebtEntryError(entryId) ==
    IF ~(BytesLength(debtEntries[entryId].creditor) > 0) THEN "NotFound" ELSE "none"

GetDebtEntryValue(entryId) ==
    LET entry == debtEntries[entryId]
    IN  <<entry.creditor, entry.debtor, entry.timestamp,
          entry.isVerified, entry.decryptedAmount>>

GetDebtEntry(entryId) ==
    IF GetDebtEntryError(entryId) # "none"
    THEN Revert(Call("getDebtEntry", GetDebtEntryError(entryId)))
    ELSE View(Call("getDebtEntry", "none"), GetDebtEntryValue(entryId))

\* fault variant: the mapping is read without the existence check
GetNetBalanceErrorNoCheck(participantId) == "none"

GetNetBalanceError(participantId) ==
    IF ~ParticipantExists(participantIds, participantId) THEN "NotFound" ELSE "none"

GetNetBalance(participantId) ==
    IF GetNetBalanceError(participantId) # "none"
    THEN Revert(Call("getNetBalance", GetNetBalanceError(participantId)))
    ELSE View(Call("getNetBalance", "none"), netBalances[participantId])

GetAllEntryIds == View(Call("getAllEntryIds", "none"), entryIds)

GetAllParticipantIds ==
    View(Call("getAllParticipantIds", "none"), participantIds)

\* ------------------------------------------- web client: decryptData
\* App.tsx, decryptData(businessId): an async function, one step per await.
\* The ledger, the wallet and the decryption SDK are the environment: what a
\* call returns or throws is chosen from the sets below.  The timers that
\* hide the status banner are not modelled.
ClientClearValues == {0, 1, CtValue[1]}

\* records getBusinessData can return: an unverified record carries 0
LedgerRecords ==
    {[read |-> TRUE, isVerified |-> FALSE, decryptedValue |-> 0]} \cup
    {[read |-> TRUE, isVerified |-> TRUE, decryptedValue |-> v] : v \in ClientClearValues}

\* e.message of what an awaited call throws
ErrorMessages == {"Debt already verified", "execution reverted: Data already verified",
                  "Debt entry does not exist", "user rejected transaction"}

\* e.message?.includes("Data already verified")
IncludesDataAlreadyVerified(message) ==
    message = "execution reverted: Data already verified"

\* Number(x) || 0 on an unsigned integer of the ledger
NumberOrZero(x) == IF x = 0 THEN 0 ELSE x

ReturnNull == [kind |-> "null", value |-> 0]
ReturnNumber(n) == [kind |-> "number", value |-> n]
Status(status, message) == [visible |-> TRUE, status |-> status, message |-> message]

\* return from inside the try block: the finally block runs next
Return(result) == clientPc' = "finally" /\ decryptDataResult' = result

\* an awaited call rejects: the catch block runs next
Throw(message) ==
    /\ clientPc' = "catch"
    /\ caught' = message
    /\ UNCHANGED <<isDecrypting, transactionStatus, businessData, verifyTxSubmitted,
                   clearValue, decryptDataResult>>

DecryptDataStart(isConnected) ==
    /\ clientPc = "idle"
    /\ businessData' = NoBusinessData
    /\ verifyTxSubmitted' = 0
    /\ clearValue' = 0
    /\ caught' = ""
    /\ IF ~isConnected
       THEN /\ transactionStatus' = Status("error", "Please connect wallet first")
            /\ decryptDataResult' = ReturnNull
            /\ UNCHANGED <<clientPc, isDecrypting>>
       ELSE /\ isDecrypting' = TRUE
            /\ clientPc' = "getContractReadOnly"
            /\ decryptDataResult' = NoResult
            /\ UNCHANGED transactionStatus
    /\ UNCHANGED contractVars

GetContractReadOnly(outcome, message) ==
    /\ clientPc = "getContractReadOnly"
    /\ CASE outcome = "contract" ->
              /\ clientPc' = "getBusinessData"
              /\ UNCHANGED <<isDecrypting, transactionStatus, businessData,
                             verifyTxSubmitted, clearValue, caught, decryptDataResult>>
         [] outcome = "null" ->
              /\ Return(ReturnNull)
              /\ UNCHANGED <<isDecrypting, transactionStatus, businessData,
                             verifyTxSubmitted, clearValue, caught>>
         [] outcome = "throw" -> Throw(message)
    /\ UNCHANGED contractVars

\* fault variant: the verified flag of the record is not looked at
GetBusinessDataNoVerifiedCheck(outcome, data, message) ==
    /\ clientPc = "getBusinessData"
    /\ CASE outcome = "record" ->
              /\ businessData' = data
              /\ clientPc' = "getContractWithSigner"
              /\ UNCHANGED <<isDecrypting, transactionStatus, verifyTxSubmitted,
                             clearValue, caught, decryptDataResult>>
         [] outcome = "throw" -> Throw(message)
    /\ UNCHANGED contractVars

GetBusinessData(outcome, data, message) ==
    /\ clientPc = "getBusinessData"
    /\ CASE outcome = "record" ->
              /\ businessData' = data
              /\ IF data.isVerified
                 THEN LET storedValue == NumberOrZero(data.decryptedValue)
                      IN  /\ transactionStatus' =
                                 Status("success", "Data already verified on-chain")
                          /\ Return(ReturnNumber(storedValue))
                 ELSE /\ clientPc' = "getContractWithSigner"
                      /\ UNCHANGED <<transactionStatus, decryptDataResult>>
              /\ UNCHANGED <<isDecrypting, verifyTxSubmitted, clearValue, caught>>
         [] outcome = "throw" -> Throw(message)
    /\ UNCHANGED contractVars

GetContractWithSigner(outcome, message) ==
    /\ clientPc = "getContractWithSigner"
    /\ CASE outcome = "contract" ->
              /\ clientPc' = "getEncryptedValue"
              /\ UNCHANGED <<isDecrypting, transactionStatus, businessData,
                             verifyTxSubmitted, clearValue, caught, decryptDataResult>>
         [] outcome = "null" ->
              /\ Return(ReturnNull)
              /\ UNCHANGED <<isDecrypting, transactionStatus, businessData,
                             verifyTxSubmitted, clearValue, caught>>
         [] outcome = "throw" -> Throw(message)
    /\ UNCHANGED contractVars

GetEncryptedValue(outcome, message) ==
    /\ clientPc = "getEncryptedValue"
    /\ CASE outcome = "handle" ->
              /\ clientPc' = "verifyDecryption"
              /\ UNCHANGED <<isDecrypting, transactionStatus, businessData,
                             verifyTxSubmitted, clearValue, caught, decryptDataResult>>
         [] outcome = "throw" -> Throw(message)
    /\ UNCHANGED contractVars

\* verifyDecryption of the decryption SDK: it decrypts, then hands cleartext and
\* proof to the callback, which submits contractWrite.verifyDecryption
UseDecryptVerifyDecryption(outcome, value, message) ==
    /\ clientPc = "verifyDecryption"
    /\ CASE outcome = "verified" ->
              /\ verifyTxSubmitted' = verifyTxSubmitted + 1
              /\ clearValue' = value
              /\ transactionStatus' = Status("pending", "Verifying decryption on-chain...")
              /\ clientPc' = "loadData"
              /\ UNCHANGED <<isDecrypting, businessData, caught, decryptDataResult>>
         [] outcome = "reverted" ->
              /\ verifyTxSubmitted' = verifyTxSubmitted + 1
              /\ clientPc' = "catch"
              /\ caught' = message
              /\ UNCHANGED <<isDecrypting, transactionStatus, businessData,
                             clearValue, decryptDataResult>>
         [] outcome = "throw" -> Throw(message)
    /\ UNCHANGED contractVars

\* await loadData() on the success path, then the return
AwaitLoadData ==
    /\ clientPc = "loadData"
    /\ transactionStatus' = Status("success", "Data decrypted and verified successfully!")
    /\ Return(ReturnNumber(clearValue))
    /\ UNCHANGED <<isDecrypting, businessData, verifyTxSubmitted, clearValue, caught>>
    /\ UNCHANGED contractVars

CatchBlock ==
    /\ clientPc = "catch"
    /\ transactionStatus' =
           IF IncludesDataAlreadyVerified(caught)
           THEN Status("success", "Data is already verified on-chain")
           ELSE Status("error", "Decryption failed: " \o caught)
    /\ Return(ReturnNull)
    /\ UNCHANGED <<isDecrypting, businessData, verifyTxSubmitted, clearValue, caught>>
    /\ UNCHANGED contractVars

FinallyBlock ==
    /\ clientPc = "finally"
    /\ isDecrypting' = FALSE
    /\ clientPc' = "idle"
    /\ UNCHANGED <<transactionStatus, businessData, verifyTxSubmitted,
                   clearValue, caught, decryptDataResult>>
    /\ UNCHANGED contractVars

Next ==
    \/ \E entryId \in EntryIdSet, creditor \in Names, debtor \in Names,
          encryptedAmount \in ExternalCts, inputProof \in InputProofs :
            RecordDebt(entryId, creditor, debtor, encryptedAmount, inputProof)
    \/ \E entryId \in EntryIdSet, word \in ClearWords, proof \in Proofs :
            VerifyDecryption(entryId, word, proof)
    \/ \E participantId \in BalanceNames : ComputeNetBalance(participantId)
    \/ \E entryId \in EntryIdSet : GetDebtEntry(entryId)
    \/ \E participantId \in BalanceNames : GetNetBalance(participantId)
    \/ GetAllEntryIds
    \/ GetAllParticipantIds

Spec == Init /\ [][Next]_vars

\* the client alone, against a ledger that answers as the environment chooses
ClientNext ==
    \/ \E isConnected \in BOOLEAN : DecryptDataStart(isConnected)
    \/ \E outcome \in {"contract", "null", "throw"}, message \in ErrorMessages :
            GetContractReadOnly(outcome, message)
    \/ \E outcome \in {"record", "throw"}, data \in LedgerRecords,
          message \in ErrorMessages : GetBusinessData(outcome, data, message)
    \/ \E outcome \in {"contract", "null", "throw"}, message \in ErrorMessages :
            GetContractWithSigner(outcome, message)
    \/ \E outcome \in {"handle", "throw"}, message \in ErrorMessages :
            GetEncryptedValue(outcome, message)
    \/ \E outcome \in {"verified", "reverted", "throw"}, value \in ClientClearValues,
          message \in ErrorMessages : UseDecryptVerifyDecryption(outcome, value, message)
    \/ AwaitLoadData
    \/ CatchBlock
    \/ FinallyBlock

ClientSpec == Init /\ [][ClientNext]_vars

\* ------------------------------------------------------------ properties
Errors == {"DuplicateEntry", "SelfDebt", "InvalidCiphertext", "NotFound",
           "AlreadyVerified", "InvalidProof", "DecodeRevert"}

\* some recordDebt call for entryId has succeeded (each success appends the id)
Stored(entryId) == \E i \in 1..Len(entryIds) : entryIds[i] = entryId

StoredIds == {id \in EntryIdSet : Stored(id)}

Succeeded(op) == lastCall.op = op /\ lastCall.err = "none"

\* the true amount of an entry: the cleartext behind its ciphertext
TrueAmount(entryId) == Cleartext(debtEntries[entryId].encryptedAmount)

RECURSIVE CreditsMinusDebits(_, _)
\* over the entries ids, each taken once: the amounts with creditor p minus
\* the amounts with debtor p (an integer, possibly negative)
CreditsMinusDebits(ids, p) ==
    IF ids = {} THEN 0
    ELSE LET id == CHOOSE x \in ids : TRUE
             credit == IF debtEntries[id].creditor = p THEN TrueAmount(id) ELSE 0
             debit == IF debtEntries[id].debtor = p THEN TrueAmount(id) ELSE 0
         IN  credit - debit + CreditsMinusDebits(ids \ {id}, p)

\* C1: once recordDebt has succeeded for an entryId, every later recordDebt
\* with that entryId (any creditor, debtor, ciphertext, proof) fails with
\* DuplicateEntry and leaves the stored entry, the entry log and the
\* participant registry unchanged.
C1_DuplicateRejected ==
    /\ [](\A id \in StoredIds, c \in Names, d \in Names, x \in ExternalCts, pr \in InputProofs :
            RecordDebtError(id, c, d, x, pr) = "DuplicateEntry")
    /\ [][lastCall'.op = "recordDebt" =>
            \A id \in StoredIds :
                /\ debtEntries'[id] = debtEntries[id]
                /\ entryIds' # entryIds => entryIds'[Len(entryIds')] # id]_vars

\* C2: once an entry is verified it stays verified with the same
\* decrypted_amount, whatever call follows (recordDebt with the same entryId
\* included).
C2_VerifiedIsPermanent ==
    [][\A id \in EntryIdSet :
         debtEntries[id].isVerified =>
            /\ debtEntries'[id].isVerified
            /\ debtEntries'[id].decryptedAmount = debtEntries[id].decryptedAmount]_vars

\* a recordDebt was just refused for a used entryId while every entry that can
\* refuse one is verified
C2_Witness ==
    /\ lastCall = Call("recordDebt", "DuplicateEntry")
    /\ \E id \in EntryIdSet : debtEntries[id].isVerified
    /\ \A id \in EntryIdSet : debtEntries[id].creditor # "" => debtEntries[id].isVerified
    /\ \E p \in Names : netBalances[p] # NullHandle

\* C3: verifyDecryption on an entry whose verified flag is set fails with
\* AlreadyVerified for every cleartext and proof, valid or not, and changes
\* nothing; a verifyDecryption that succeeds found its entry unverified.
C3_VerifyAtMostOnce ==
    /\ [](\A id \in EntryIdSet, w \in ClearWords, pr \in Proofs :
            debtEntries[id].isVerified =>
                VerifyDecryptionError(id, w, pr) = "AlreadyVerified")
    /\ [][/\ lastCall'.err = "AlreadyVerified" =>
                UNCHANGED storage /\ emitted' = NoEvents
          /\ (lastCall'.op = "verifyDecryption" /\ lastCall'.err = "none") =>
                /\ Len(emitted') = 1
                /\ ~debtEntries[emitted'[1].id].isVerified
                /\ debtEntries'[emitted'[1].id].isVerified]_vars

C3_Witness ==
    /\ lastCall = Call("verifyDecryption", "AlreadyVerified")
    /\ \E id \in EntryIdSet : debtEntries[id].isVerified

\* C4: every verified entry holds a decrypted_amount that the proof check
\* accepts against the entry's stored ciphertext; verified turns from false to
\* true only in a verifyDecryption whose proof check succeeded.
C4_VerifiedOnlyByProof ==
    /\ [](\A id \in EntryIdSet :
            debtEntries[id].isVerified =>
                \E pr \in Proofs : CheckSignatures(debtEntries[id].encryptedAmount,
                                                   debtEntries[id].decryptedAmount, pr))
    /\ [][\A id \in EntryIdSet :
            (~debtEntries[id].isVerified /\ debtEntries'[id].isVerified) =>
                /\ lastCall' = Call("verifyDecryption", "none")
                /\ emitted' = <<DecryptionVerified(id, debtEntries'[id].decryptedAmount)>>
                /\ \E pr \in Proofs :
                      CheckSignatures(debtEntries[id].encryptedAmount,
                                      debtEntries'[id].decryptedAmount, pr)]_vars

C4_Witness ==
    /\ Succeeded("verifyDecryption")
    /\ \E id \in EntryIdSet :
          debtEntries[id].isVerified /\ debtEntries[id].decryptedAmount = CtValue[1]

\* C5: round trip.  For every stored, still unverified entry with true amount
\* X, verifyDecryption with cleartext X and a proof the Gateway accepts
\* succeeds, and with a proof the Gateway rejects fails with InvalidProof; a
\* success leaves decrypted_amount = X and verified = true.
C5_RoundTrip ==
    /\ [](\A id \in StoredIds, w \in ClearWords, pr \in Proofs :
            ~debtEntries[id].isVerified =>
                VerifyDecryptionError(id, w, pr) =
                    IF CheckSignatures(debtEntries[id].encryptedAmount, w, pr)
                    THEN "none" ELSE "InvalidProof")
    /\ [][(lastCall'.op = "verifyDecryption" /\ lastCall'.err = "none") =>
            /\ debtEntries'[emitted'[1].id].isVerified
            /\ debtEntries'[emitted'[1].id].decryptedAmount = TrueAmount(emitted'[1].id)
          ]_vars

\* C6: every failing call leaves entry table, entry log, registry, balance
\* table and grants as they were and emits no notification.
C6_FailureChangesNothing ==
    [][lastCall'.err \in Errors => UNCHANGED storage /\ emitted' = NoEvents]_vars

C6_Witness ==
    /\ lastCall.err \in Errors
    /\ entryIds # << >>
    /\ \E p \in Names : netBalances[p] # NullHandle

\* C7 as stated: every recordDebt with creditor equal to debtor fails with
\* SelfDebt; every stored entry has creditor different from debtor.
C7_SelfDebtAlways ==
    /\ \A id \in EntryIdSet, c \in Names, x \in ExternalCts, pr \in InputProofs :
          RecordDebtError(id, c, c, x, pr) = "SelfDebt"
    /\ \A id \in StoredIds : debtEntries[id].creditor # debtEntries[id].debtor

\* C7 amended: recordDebt with creditor equal to debtor (exact comparison)
\* fails, with SelfDebt unless an entry with a non-empty creditor is already
\* stored under entryId, in which case with DuplicateEntry; no other call
\* fails with SelfDebt; the failure changes nothing, and every stored entry
\* has creditor different from debtor.
C7_SelfDebtRejected ==
    /\ [](\A id \in EntryIdSet, c \in Names, d \in Names, x \in ExternalCts, pr \in InputProofs :
            /\ c = d => RecordDebtError(id, c, d, x, pr) =
                          IF debtEntries[id].creditor # "" THEN "DuplicateEntry" ELSE "SelfDebt"
            /\ c # d => RecordDebtError(id, c, d, x, pr) # "SelfDebt")
    /\ [](\A id \in StoredIds : debtEntries[id].creditor # debtEntries[id].debtor)
    /\ [][lastCall'.err = "SelfDebt" =>
            UNCHANGED <<debtEntries, participantIds, entryIds>>]_vars

C7_Witness ==
    /\ lastCall = Call("recordDebt", "SelfDebt")
    /\ \E id \in StoredIds : debtEntries[id].creditor = "bob" /\ debtEntries[id].debtor = "Bob"

\* C8: getDebtEntry succeeds for every entryId recordDebt has stored and
\* returns its creditor, debtor, creation timestamp, verified and
\* decrypted_amount; it fails with NotFound only for ids never stored.
C8_GetDebtEntry ==
    \A id \in EntryIdSet :
        IF Stored(id)
        THEN /\ GetDebtEntryError(id) = "none"
             /\ GetDebtEntryValue(id) =
                    <<debtEntries[id].creditor, debtEntries[id].debtor,
                      debtEntries[id].timestamp, debtEntries[id].isVerified,
                      debtEntries[id].decryptedAmount>>
        ELSE GetDebtEntryError(id) = "NotFound"

\* C9: after a successful computeNetBalance(p) the cleartext of p's stored
\* balance is the sum of the amounts of the stored entries with creditor p
\* minus the sum of those with debtor p, each stored entry counted once.
\* The difference is read in the ledger's unsigned arithmetic, the reading
\* most favourable to the claim.
C9_BalanceIsSignedSum ==
    \A p \in Names :
        (Succeeded("computeNetBalance") /\ emitted[1].id = p) =>
            Cleartext(netBalances[p]) =
                CreditsMinusDebits(StoredIds, p) % Uint32Mod

\* C10: computeNetBalance(p) fails with NotFound exactly for the ids p that
\* are neither creditor nor debtor of a currently stored entry.
C10_NotFoundIffNoEntry ==
    \A p \in Names :
        (ComputeNetBalanceError(p) = "NotFound") <=>
            ~(\E id \in StoredIds : debtEntries[id].creditor = p \/ debtEntries[id].debtor = p)

\* the elements of a sequence
Range(seq) == {seq[i] : i \in 1..Len(seq)}

NoDuplicates(seq) == \A i, j \in 1..Len(seq) : seq[i] = seq[j] => i = j

IsPrefix(a, b) == Len(a) <= Len(b) /\ SubSeq(b, 1, Len(a)) = a

\* the ids among creditor, debtor that a registry does not hold yet, creditor
\* first, neither twice
NewlySeen(registry, creditor, debtor) ==
    (IF creditor \in Range(registry) THEN << >> ELSE <<creditor>>)
    \o (IF debtor \in Range(registry) \/ debtor = creditor THEN << >> ELSE <<debtor>>)

\* C11: getAllParticipantIds returns a sequence without duplicates, in the
\* order in which the ids were first seen by a successful recordDebt, creditor
\* before debtor; the sequence of any later state extends that of any earlier
\* state.
C11_RegistryFirstSeenOrder ==
    /\ [](NoDuplicates(participantIds))
    /\ [][/\ IsPrefix(participantIds, participantIds')
          /\ (lastCall'.op = "recordDebt" /\ lastCall'.err = "none") =>
                participantIds' = participantIds \o
                    NewlySeen(participantIds, emitted'[1].creditor, emitted'[1].debtor)
          /\ lastCall'.op = "getAllParticipantIds" => returned' = participantIds
          /\ ~(lastCall'.op = "recordDebt" /\ lastCall'.err = "none") =>
                participantIds' = participantIds]_vars

\* the registry is read after a recordDebt that met one known and one new id
C11_Witness ==
    /\ lastCall.op = "getAllParticipantIds"
    /\ returned = participantIds
    /\ Len(participantIds) = 3
    /\ Len(entryIds) = 2

\* the participant of the computeNetBalance that has just succeeded
JustComputed(p) == Succeeded("computeNetBalance") /\ emitted[1].id = p

\* C12: idempotence.  Right after a successful computeNetBalance(p), a second
\* computeNetBalance(p) succeeds, computes a balance with the same cleartext as
\* the one stored, and grants nothing that is not granted already, so that it
\* changes nothing but the balance handle of p.
C12_AggregationIdempotent ==
    \A p \in Names :
        JustComputed(p) =>
            LET again == ScanEntries(1, FHEzero, TRUE, p)
            IN  /\ ComputeNetBalanceError(p) = "none"
                /\ Cleartext(again) = Cleartext(netBalances[p])
                /\ again \in publiclyDecryptable
                /\ again \in aclAllowed

C12_Witness ==
    /\ JustComputed("bob")
    /\ Len(entryIds) = 2
    /\ Len(netBalances["bob"]) >= 2
    /\ Cleartext(netBalances["bob"]) # 0

\* C13: the creditor, debtor, amount ciphertext and creation timestamp of a
\* stored entry are the same in every later state.
C13_EntryFieldsImmutable ==
    [][\A id \in StoredIds :
         /\ debtEntries'[id].creditor = debtEntries[id].creditor
         /\ debtEntries'[id].debtor = debtEntries[id].debtor
         /\ debtEntries'[id].encryptedAmount = debtEntries[id].encryptedAmount
         /\ debtEntries'[id].timestamp = debtEntries[id].timestamp]_vars

\* C14: the entry log is append-only and in creation order: a successful
\* recordDebt appends exactly its entryId, nothing else changes the log; the
\* log holds no id twice and exactly the keys of the stored entries.
C14_EntryLogAppendOnly ==
    /\ [](NoDuplicates(entryIds))
    /\ [](Range(entryIds) = {id \in EntryIdSet : debtEntries[id] # EmptyEntry})
    /\ [][/\ IsPrefix(entryIds, entryIds')
          /\ (lastCall'.op = "recordDebt" /\ lastCall'.err = "none") =>
                entryIds' = Append(entryIds, emitted'[1].id)
          /\ ~(lastCall'.op = "recordDebt" /\ lastCall'.err = "none") =>
                entryIds' = entryIds]_vars

\* C15: balances are not maintained incrementally.  A recordDebt or a
\* verifyDecryption step leaves every stored balance as it was; the balance of
\* p changes only in a successful computeNetBalance(p), to the handle that call
\* emits, so it stays what the latest such call wrote.
C15_BalancesNotAutoUpdated ==
    [][/\ lastCall'.op \in {"recordDebt", "verifyDecryption"} =>
              netBalances' = netBalances
       /\ \A p \in Names : netBalances'[p] # netBalances[p] =>
              /\ lastCall'.op = "computeNetBalance" /\ lastCall'.err = "none"
              /\ emitted'[1].id = p
              /\ netBalances'[p] = emitted'[1].handle]_vars

\* a debt crediting bob was just recorded after bob's balance was computed, and
\* the stored balance no longer matches the log
C15_Witness ==
    /\ Succeeded("recordDebt")
    /\ emitted[1].creditor = "bob"
    /\ netBalances["bob"] # NullHandle
    /\ Cleartext(netBalances["bob"]) # Cleartext(ScanEntries(1, FHEzero, TRUE, "bob"))

RECURSIVE LogBalance(_, _)
\* a number read off the entry table and the first n log positions alone: the
\* amounts credited to p minus the amounts p owes, in uint32 arithmetic
LogBalance(n, p) ==
    IF n = 0 THEN 0
    ELSE LET entry == debtEntries[entryIds[n]]
             amount == Cleartext(entry.encryptedAmount)
             credit == IF entry.creditor = p THEN amount ELSE 0
             debit == IF entry.debtor = p THEN amount ELSE 0
         IN  (LogBalance(n - 1, p) + credit - debit) % Uint32Mod

\* C16: the balance computeNetBalance(p) stores is a function of p, the entry
\* table and the entry log: right after a successful call its cleartext is
\* LogBalance of the whole log, whatever was stored or called before.
C16_BalanceDependsOnLogOnly ==
    \A p \in Names : JustComputed(p) =>
        Cleartext(netBalances[p]) = LogBalance(Len(entryIds), p)

\* bob's balance was just computed over two entries, one of them verified
C16_Witness ==
    /\ JustComputed("bob")
    /\ Len(entryIds) = 2
    /\ \E id \in EntryIdSet : debtEntries[id].isVerified
    /\ \E id \in EntryIdSet : debtEntries[id].debtor = "bob"

RECURSIVE ReferenceFold(_, _, _)
\* the fold without shortcut: from position i on, add for a credit and
\* subtract for a debit, in log order
ReferenceFold(i, acc, p) ==
    IF i > Len(entryIds) THEN acc
    ELSE LET entry == debtEntries[entryIds[i]]
             a1 == IF entry.creditor = p THEN FHEadd(acc, entry.encryptedAmount) ELSE acc
             a2 == IF entry.debtor = p THEN FHEsub(a1, entry.encryptedAmount) ELSE a1
         IN  ReferenceFold(i + 1, a2, p)

\* C17: for every participant and every reachable log, the scan with the
\* first-contribution shortcut yields a balance with the same cleartext as the
\* fold that starts from an encrypted zero.
C17_ShortcutMatchesFold ==
    \A p \in Names :
        Cleartext(ScanEntries(1, FHEzero, TRUE, p)) =
            Cleartext(ReferenceFold(1, FHEzero, p))

\* bob's balance was just computed over a log whose first contribution to bob
\* is a debit and whose second is a credit
C17_Witness ==
    /\ JustComputed("bob")
    /\ Len(entryIds) = 2
    /\ debtEntries[entryIds[1]].debtor = "bob"
    /\ debtEntries[entryIds[2]].creditor = "bob"
    /\ netBalances["bob"] = ScanEntries(1, FHEzero, TRUE, "bob")

\* C18: in a scan for p every log position contributes at most once: the
\* creditor test and the debtor test are never both true for one entry, and a
\* position whose entry names p on neither side passes accumulator and
\* first-contribution flag on as they are.
C18_OneContributionPerPosition ==
    \A p \in Names : \A i \in 1..Len(entryIds) :
        LET entry == debtEntries[entryIds[i]]
            isCred == CompareStrings(entry.creditor, p)
            isDebt == CompareStrings(entry.debtor, p)
        IN  /\ ~(isCred /\ isDebt)
            /\ (~isCred /\ ~isDebt) =>
                   \A f \in BOOLEAN : \A b \in {FHEzero} \cup publiclyDecryptable :
                       ScanEntries(i, b, f, p) = ScanEntries(i + 1, b, f, p)

\* bob's balance was just computed over a log with one entry that names bob
\* and one that does not
C18_Witness ==
    /\ JustComputed("bob")
    /\ \E i, j \in 1..Len(entryIds) :
          /\ debtEntries[entryIds[i]].creditor = "bob"
          /\ debtEntries[entryIds[j]].creditor # "bob"
          /\ debtEntries[entryIds[j]].debtor # "bob"

\* C19: the registry holds exactly the ids that are creditor or debtor of an
\* entry stored now.
C19_RegistryMatchesEntries ==
    LET held == {id \in EntryIdSet : debtEntries[id] # EmptyEntry}
    IN  Range(participantIds) =
            {debtEntries[id].creditor : id \in held} \cup
            {debtEntries[id].debtor : id \in held}

\* C20: the ciphertext handle of every stored entry and every balance handle
\* stored by computeNetBalance is publicly decryptable, and no step takes a
\* public-decryption grant away.
C20_GrantsKept ==
    /\ [](/\ \A id \in EntryIdSet : debtEntries[id] # EmptyEntry =>
                 debtEntries[id].encryptedAmount \in publiclyDecryptable
          /\ \A p \in Names : netBalances[p] # NullHandle =>
                 netBalances[p] \in publiclyDecryptable)
    /\ [][publiclyDecryptable \subseteq publiclyDecryptable']_vars

\* bob's balance was just computed into a handle that is no entry's ciphertext
C20_Witness ==
    /\ JustComputed("bob")
    /\ netBalances["bob"] \in publiclyDecryptable
    /\ \A id \in EntryIdSet : netBalances["bob"] # debtEntries[id].encryptedAmount
    /\ \E id \in EntryIdSet : debtEntries[id].encryptedAmount \in publiclyDecryptable

\* C21: a successful recordDebt, verifyDecryption or computeNetBalance emits
\* exactly one notification: DebtRecorded with the id, creditor and debtor just
\* stored, DecryptionVerified with the amount just written, NetBalanceUpdated
\* with the handle just stored; nothing else emits.  The log grows by the id of
\* each DebtRecorded and by nothing else, so the notified ids in order are the
\* log; a DecryptionVerified for an id takes its entry from unverified to
\* verified and verified entries stay verified, so no id is notified twice.
C21_OneNotificationPerSuccess ==
    /\ [](/\ Succeeded("recordDebt") =>
                /\ Len(emitted) = 1
                /\ emitted[1].name = "DebtRecorded"
                /\ emitted[1].id = entryIds[Len(entryIds)]
                /\ emitted[1].creditor = debtEntries[emitted[1].id].creditor
                /\ emitted[1].debtor = debtEntries[emitted[1].id].debtor
          /\ Succeeded("verifyDecryption") =>
                /\ Len(emitted) = 1
                /\ emitted[1].name = "DecryptionVerified"
                /\ emitted[1].amount = debtEntries[emitted[1].id].decryptedAmount
          /\ Succeeded("computeNetBalance") =>
                /\ Len(emitted) = 1
                /\ emitted[1].name = "NetBalanceUpdated"
                /\ emitted[1].handle = netBalances[emitted[1].id]
          /\ ~(\/ Succeeded("recordDebt") \/ Succeeded("verifyDecryption")
               \/ Succeeded("computeNetBalance")) => emitted = NoEvents)
    /\ [][/\ (Succeeded("recordDebt"))' => entryIds' = Append(entryIds, emitted'[1].id)
          /\ ~(Succeeded("recordDebt"))' => entryIds' = entryIds
          /\ (Succeeded("verifyDecryption"))' =>
                /\ ~debtEntries[emitted'[1].id].isVerified
                /\ debtEntries'[emitted'[1].id].isVerified
          /\ \A id \in EntryIdSet :
                debtEntries[id].isVerified => debtEntries'[id].isVerified]_vars

\* a verification of a nonzero amount was just notified, with two entries logged
C21_Witness ==
    /\ Succeeded("verifyDecryption")
    /\ emitted[1].amount # 0
    /\ Len(entryIds) = 2

\* C22: a successful verifyDecryption(entryId, ..) changes nothing but the
\* decrypted amount and the verified flag of that entry: its creditor, debtor,
\* ciphertext and timestamp, all other entries, the log, the registry and all
\* balances are as before.
C22_VerifyFrame ==
    [][(Succeeded("verifyDecryption"))' =>
          LET entryId == emitted'[1].id
          IN  /\ debtEntries' = [debtEntries EXCEPT
                     ![entryId].decryptedAmount = debtEntries'[entryId].decryptedAmount,
                     ![entryId].isVerified = debtEntries'[entryId].isVerified]
              /\ entryIds' = entryIds
              /\ participantIds' = participantIds
              /\ netBalances' = netBalances]_vars

\* an entry was just verified while another entry, still unverified, and a
\* computed balance are stored
C22_Witness ==
    /\ Succeeded("verifyDecryption")
    /\ \E other \in EntryIdSet :
          /\ other # emitted[1].id
          /\ debtEntries[other] # EmptyEntry
          /\ ~debtEntries[other].isVerified
    /\ \E p \in Names : netBalances[p] # NullHandle

\* C23: a successful computeNetBalance(p) overwrites the stored balance of p
\* and grants the new handle, nothing more: entries, log, registry and the
\* balance of every other participant are as before.
C23_ComputeFrame ==
    [][(Succeeded("computeNetBalance"))' =>
          LET p == emitted'[1].id
          IN  /\ netBalances' = [netBalances EXCEPT ![p] = netBalances'[p]]
              /\ publiclyDecryptable' = publiclyDecryptable \cup {netBalances'[p]}
              /\ aclAllowed' = aclAllowed \cup {netBalances'[p]}
              /\ debtEntries' = debtEntries
              /\ entryIds' = entryIds
              /\ participantIds' = participantIds]_vars

\* bob's balance was just computed while the participant "" holds a different
\* computed balance
C23_Witness ==
    /\ JustComputed("bob")
    /\ netBalances[""] # NullHandle
    /\ netBalances[""] # netBalances["bob"]

\* C24: an entry that is not verified has decrypted amount 0, and the
\* decrypted amount of an entry changes only in a step that takes the entry
\* from unverified to verified.
C24_AmountOnlyWhenVerified ==
    /\ [](\A id \in EntryIdSet :
              ~debtEntries[id].isVerified => debtEntries[id].decryptedAmount = 0)
    /\ [][\A id \in EntryIdSet :
              debtEntries'[id].decryptedAmount # debtEntries[id].decryptedAmount =>
                  ~debtEntries[id].isVerified /\ debtEntries'[id].isVerified]_vars

\* one entry is verified with a nonzero amount and another is stored unverified
C24_Witness ==
    \E id, other \in EntryIdSet :
        /\ debtEntries[id].isVerified
        /\ debtEntries[id].decryptedAmount # 0
        /\ debtEntries[other] # EmptyEntry
        /\ ~debtEntries[other].isVerified
        /\ debtEntries[other].decryptedAmount = 0

RECURSIVE AmountSum(_, _, _)
\* the amounts, as plain integers, of the first n log positions whose entry
\* names p as its creditor (side "creditor") or debtor (side "debtor")
AmountSum(n, p, side) ==
    IF n = 0 THEN 0
    ELSE LET entry == debtEntries[entryIds[n]]
         IN  AmountSum(n - 1, p, side) +
                 (IF entry[side] = p THEN Cleartext(entry.encryptedAmount) ELSE 0)

\* C25: the balance is a 32-bit unsigned value.  For every participant the
\* scan over the log yields a cleartext inside the range of the type, equal to
\* credits minus debits reduced modulo the width; debits above credits by d
\* give the modulus minus d; and this is what a successful computeNetBalance
\* leaves stored.
C25_ModularBalance ==
    \A p \in Names :
        LET credits == AmountSum(Len(entryIds), p, "creditor")
            debits == AmountSum(Len(entryIds), p, "debtor")
            clear == Cleartext(ScanEntries(1, FHEzero, TRUE, p))
        IN  /\ clear \in 0..(Uint32Mod - 1)
            /\ clear = (credits - debits) % Uint32Mod
            /\ (debits > credits /\ debits - credits < Uint32Mod) =>
                   clear = Uint32Mod - (debits - credits)
            /\ JustComputed(p) => Cleartext(netBalances[p]) = clear

\* bob's balance was just computed from credits that exceed the range and
\* wrapped, while another participant holds a computed balance that is the
\* modulus minus what they owe
C25_Witness ==
    /\ JustComputed("bob")
    /\ AmountSum(Len(entryIds), "bob", "creditor") >= Uint32Mod
    /\ Cleartext(netBalances["bob"]) =
           AmountSum(Len(entryIds), "bob", "creditor") - Uint32Mod
    /\ \E q \in Names :
          /\ netBalances[q] # NullHandle
          /\ AmountSum(Len(entryIds), q, "creditor") = 0
          /\ AmountSum(Len(entryIds), q, "debtor") \in 1..(Uint32Mod - 1)
          /\ Cleartext(netBalances[q]) =
                 Uint32Mod - AmountSum(Len(entryIds), q, "debtor")

\* C26: getNetBalance(p) fails with NotFound exactly when p is not in the
\* registry; for a registered p it returns the handle stored for p and changes
\* nothing.  The stored handle is null until a computeNetBalance(p) succeeds:
\* an unregistered p has the null handle, and a stored handle changes only
\* into the one a successful computeNetBalance(p) emits.
C26_GetNetBalance ==
    /\ [](\A p \in Names :
             /\ GetNetBalanceError(p) = "NotFound" <=> p \notin Range(participantIds)
             /\ GetNetBalanceError(p) \in {"NotFound", "none"}
             /\ p \notin Range(participantIds) => netBalances[p] = NullHandle)
    /\ [][/\ \A p \in BalanceNames : GetNetBalance(p) =>
                /\ p \in Range(participantIds) =>
                       /\ lastCall'.err = "none"
                       /\ returned' = netBalances[p]
                /\ p \notin Range(participantIds) =>
                       /\ lastCall'.err = "NotFound"
                       /\ returned' = NoReturn
                /\ storage' = storage
          /\ \A p \in Names : netBalances'[p] # netBalances[p] =>
                /\ JustComputed(p)'
                /\ netBalances'[p] = emitted'[1].handle]_vars

\* getNetBalance just returned the null handle of bob, registered but never
\* aggregated, while the participant "" holds a computed balance
C26_Witness ==
    /\ Succeeded("getNetBalance")
    /\ returned = NullHandle
    /\ "bob" \in Range(participantIds)
    /\ netBalances["bob"] = NullHandle
    /\ netBalances[""] # NullHandle

\* C27: the first failing check is the one reported.  recordDebt for an id that
\* is already stored, with creditor equal to debtor, fails with DuplicateEntry
\* and not SelfDebt, whatever ciphertext and proof come with it; for a fresh id
\* it fails with SelfDebt, again before the ciphertext is looked at.
\* verifyDecryption fails with NotFound for an id that is not stored and with
\* AlreadyVerified for a verified entry, whatever proof comes with it.
C27_FirstFailureReported ==
    /\ \A entryId \in EntryIdSet, creditor \in Names,
          encryptedAmount \in ExternalCts, inputProof \in InputProofs :
            RecordDebtError(entryId, creditor, creditor, encryptedAmount, inputProof) =
                IF Stored(entryId) THEN "DuplicateEntry" ELSE "SelfDebt"
    /\ \A entryId \in EntryIdSet, word \in ClearWords, proof \in Proofs :
          /\ ~Stored(entryId) => VerifyDecryptionError(entryId, word, proof) = "NotFound"
          /\ debtEntries[entryId].isVerified =>
                 VerifyDecryptionError(entryId, word, proof) = "AlreadyVerified"

\* C28: in decryptData, when the record read from the ledger is verified, no
\* verifyDecryption transaction is submitted and the call returns the stored
\* decrypted value; and whenever the call has ended, by whatever path, the
\* isDecrypting flag is false.
C28_DecryptDataFlow ==
    /\ businessData.isVerified =>
          /\ verifyTxSubmitted = 0
          /\ clientPc \in {"finally", "idle"}
          /\ decryptDataResult = ReturnNumber(businessData.decryptedValue)
    /\ clientPc = "idle" => ~isDecrypting
    /\ clientPc # "idle" => isDecrypting /\ verifyTxSubmitted \in {0, 1}

\* a call that read a verified record has ended: it returned the stored
\* nonzero value, submitted nothing, and the flag is down
C28_Witness ==
    /\ clientPc = "idle"
    /\ businessData.isVerified
    /\ businessData.decryptedValue = CtValue[1]
    /\ decryptDataResult = ReturnNumber(CtValue[1])
    /\ verifyTxSubmitted = 0
    /\ ~isDecrypting

\* the log positions whose entry names p as creditor, and as debtor
CreditPositions(p) == {i \in 1..Len(entryIds) : debtEntries[entryIds[i]].creditor = p}
DebitPositions(p) == {i \in 1..Len(entryIds) : debtEntries[entryIds[i]].debtor = p}

\* C29: when a single log position contributes to p, and as a credit, the
\* balance a successful computeNetBalance(p) stores is the very handle of that
\* entry's amount ciphertext, not a handle made by add or subtract.
C29_SingleCreditSharesHandle ==
    \A p \in Names :
        (JustComputed(p) /\ Cardinality(CreditPositions(p)) = 1 /\ DebitPositions(p) = {}) =>
            \A i \in CreditPositions(p) :
                netBalances[p] = debtEntries[entryIds[i]].encryptedAmount

\* bob's balance was just computed over a log of two entries of which exactly
\* one names bob, as creditor
C29_Witness ==
    /\ JustComputed("bob")
    /\ Len(entryIds) = 2
    /\ Cardinality(CreditPositions("bob")) = 1
    /\ DebitPositions("bob") = {}
    /\ netBalances["bob"] \in {debtEntries[id].encryptedAmount : id \in EntryIdSet}

====
